---- MODULE Spec2Model ----
(***************************************************************************)
(* Model of the `chained` crate (src/src/lib.rs): lazily evaluated chains  *)
(* of function calls over a single value.                                  *)
(*                                                                         *)
(* A chain is the nested value the crate builds: Link(v) at the root and   *)
(* Chain { val, fun } around it, one per attached step.  Chained::eval is  *)
(* modelled in small steps (one per call and one per return of the         *)
(* recursion `(self.fun)(self.val.eval())`), per thread, so that what runs *)
(* when, and in which order, is visible in the states.                     *)
(*                                                                         *)
(* The caller's program is the environment: it owns two let-bindings, "x"  *)
(* (bound by a constructor or by the chained! macro) and "y" (bound by     *)
(* x.clone()), two local variables the borrowing constructors refer to,    *)
(* and one spawned thread.                                                 *)
(***************************************************************************)
EXTENDS Integers, Sequences, FiniteSets, TLC

(* ------------------------------ bounds --------------------------------- *)

\* Largest number of steps attached to one chain.
MaxSteps == 3

\* Largest initial integer the caller starts a chain with (0..MaxInt).
MaxInt == 1

(* ------------------------------ values --------------------------------- *)

\* A value of the caller's program, tagged with its Rust type.  n is the
\* number of an integer value, s the characters of a string value, loc the
\* local variable a reference points into.
Val(ty, n, s, loc) == [ty |-> ty, n |-> n, s |-> s, loc |-> loc]

I32(n) == Val("i32", n, <<>>, "")

Usize(n) == Val("usize", n, <<>>, "")

StaticStr(s) == Val("&'static str", 0, s, "")

Owned(ty, s) == Val(ty, 0, s, "")

Unit == Val("()", 0, <<>>, "")

Ref(ty, loc) == Val(ty, 0, <<>>, loc)

\* No value: an unbound result.
NoVal == Val("-", 0, <<>>, "")

\* The caller's local variables that chains may borrow:
\*   st : String      = "test"   (tests/basic.rs mut_ref)
\*   b  : Box<String> = "abc"    (tests/basic.rs as_mut)
Loc == {"st", "b"}

LocType(l) == IF l = "st" THEN "String" ELSE "Box<String>"

InitStore == [l \in Loc |-> IF l = "st" THEN <<"t", "e", "s", "t">>
                                        ELSE <<"a", "b", "c">>]

\* Owned initial values the caller starts chains with.
InitVals == {I32(n) : n \in 0..MaxInt}
              \cup {StaticStr(<<"\n">>), StaticStr(<<" ", "a", "\n">>)}

IsRefType(ty) == ty \in {"&String", "&mut String", "&Box<String>",
                         "&mut Box<String>", "&str", "&mut str"}

IsMutRefType(ty) == ty \in {"&mut String", "&mut Box<String>", "&mut str"}

(* ------------------------------- steps --------------------------------- *)

\* The closures the caller attaches.  Each has one input and one output
\* type, as the bound F: FnOnce(Self::Item) -> T demands.  With at most
\* MaxSteps + 1 integer steps on a value of at most MaxInt + 1 the numbers
\* stay far inside i32, so the arithmetic is exact.
IntSteps == {"double", "zero", "square"}

Steps == IntSteps \cup {"trim", "len", "push_dot", "clear", "ref_len"}

StepIn(f) ==
  CASE f \in IntSteps  -> "i32"
    [] f = "trim"      -> "&'static str"
    [] f = "len"       -> "&'static str"
    [] f = "push_dot"  -> "&mut String"
    [] f = "clear"     -> "&mut String"
    [] f = "ref_len"   -> "&String"

StepOut(f) ==
  CASE f \in IntSteps  -> "i32"
    [] f = "trim"      -> "&'static str"
    [] f = "len"       -> "usize"
    [] f = "push_dot"  -> "()"
    [] f = "clear"     -> "()"
    [] f = "ref_len"   -> "usize"

IsSpace(c) == c \in {" ", "\n", "\t"}

RECURSIVE TrimStart(_)
TrimStart(s) == IF s # <<>> /\ IsSpace(Head(s)) THEN TrimStart(Tail(s)) ELSE s

RECURSIVE TrimEnd(_)
TrimEnd(s) == IF s # <<>> /\ IsSpace(s[Len(s)])
              THEN TrimEnd(SubSeq(s, 1, Len(s) - 1)) ELSE s

\* str::trim
Trim(s) == TrimEnd(TrimStart(s))

\* Calling the closure f on the value v with the caller's variables st:
\* the value it returns and the variables afterwards.
CallFn(f, v, st) ==
  CASE f = "double"   -> [out |-> I32(v.n + v.n), store |-> st]
    [] f = "zero"     -> [out |-> I32(v.n - v.n), store |-> st]
    [] f = "square"   -> [out |-> I32(v.n * v.n), store |-> st]
    [] f = "trim"     -> [out |-> StaticStr(Trim(v.s)), store |-> st]
    [] f = "len"      -> [out |-> Usize(Len(v.s)), store |-> st]
    [] f = "push_dot" -> [out |-> Unit,
                          store |-> [st EXCEPT ![v.loc] = Append(@, ".")]]
    [] f = "clear"    -> [out |-> Unit,
                          store |-> [st EXCEPT ![v.loc] = <<>>]]
    [] f = "ref_len"  -> [out |-> Usize(Len(st[v.loc])), store |-> st]

(* ------------------------- the crate's types --------------------------- *)

\* No chain: a binding that is unbound or moved out of.
NoChain == [kind |-> "None"]

\* Link::new gone wrong: the link holds T::default(), not val.
Link_newDefault(val) ==
  [kind |-> "Link", v0 |-> Val(val.ty, 0, <<>>, val.loc)]

\* pub struct Link<T>(T) and Link::new
Link_new(val) == [kind |-> "Link", v0 |-> val]

\* Chained::chain: Chain { val: self, fun }
chain(self, fun) == [kind |-> "Chain", val |-> self, fun |-> fun]

\* type Item of a chain: T for Link<T>, the closure's output for Chain.
Item(c) == IF c.kind = "Link" THEN c.v0.ty ELSE StepOut(c.fun)

RECURSIVE Depth(_)
Depth(c) == IF c.kind = "Chain" THEN 1 + Depth(c.val) ELSE 0

RECURSIVE Root(_)
Root(c) == IF c.kind = "Chain" THEN Root(c.val) ELSE c

\* Link<T> and Chain<C, F, T> derive Clone: a chain can be cloned when its
\* initial value can (a &mut reference cannot; the closures here capture
\* nothing and are Clone).
IsClone(c) == ~IsMutRefType(Root(c).v0.ty)

\* std::thread::spawn wants F: Send + 'static: the chain must not borrow
\* from the caller's local variables.
IsStatic(c) == ~IsRefType(Root(c).v0.ty)

(* ---------------------- IntoChained constructors ----------------------- *)

\* fn into_chained(self) -> Link<Self>
into_chained(v) == Link_new(v)

\* fn to_chained(&self) -> Link<Self>: Link::new(self.clone())
to_chained(l, st) == Link_new(Owned(LocType(l), st[l]))

\* fn chained(&self) -> Link<&Self>
chained(l) ==
  Link_new(Ref(IF LocType(l) = "String" THEN "&String" ELSE "&Box<String>", l))

\* fn chained_mut(&mut self) -> Link<&mut Self>
chained_mut(l) ==
  Link_new(Ref(IF LocType(l) = "String" THEN "&mut String"
                                         ELSE "&mut Box<String>", l))

\* fn chained_deref<T>(&self) -> Link<&Self::Target>, Target: Sized.
\* Box<String> derefs to String (String derefs to str, which is not Sized).
chained_deref(l) == Link_new(Ref("&String", l))

\* fn chained_deref_mut<T>(&mut self) -> Link<&mut Self::Target>
chained_deref_mut(l) == Link_new(Ref("&mut String", l))

\* fn chained_as_ref<T: ?Sized>(&self) -> Link<&T>.
\* Box<String>: AsRef<String>; String: AsRef<str>.
chained_as_ref(l) ==
  Link_new(Ref(IF LocType(l) = "String" THEN "&str" ELSE "&String", l))

\* fn chained_as_mut<T: ?Sized>(&mut self) -> Link<&T>: the declared return
\* type is the shared reference &T, so self.as_mut() is coerced to it.
chained_as_mut(l) ==
  Link_new(Ref(IF LocType(l) = "String" THEN "&str" ELSE "&String", l))

(* ------------------------------- eval ---------------------------------- *)

\* impl Chained for Link<T>: fn eval(self) -> T { self.0 }
Link_eval(self) == self.v0

\* impl Chained for Chain<C, F, T>: fn eval(self) { (self.fun)(self.val.eval()) }
\* run to completion with the caller's variables st: the value returned and
\* the variables afterwards.
RECURSIVE Chain_eval(_, _)
Chain_eval(self, st) ==
  IF self.kind = "Link"
  THEN [out |-> Link_eval(self), store |-> st]
  ELSE LET r == Chain_eval(self.val, st)
       IN  CallFn(self.fun, r.out, r.store)

\* The frames gone wrong: the closure of the node entered first is called
\* first, that is the step attached last.
PushFrameOuterFirst(stack, fun) == Append(stack, fun)

\* The same call in small steps.  Entering Chain::eval keeps self.fun for
\* the call that follows the return of self.val.eval(): the closure of the
\* node entered last is called first.
PushFrame(stack, fun) == <<fun>> \o stack

(* --------------------------- chained! macro ---------------------------- *)

\* The repetition $(.chain($fn))* : one .chain() per step, left to right.
RECURSIVE ChainAll(_, _)
ChainAll(c, fns) ==
  IF fns = <<>> THEN c ELSE ChainAll(chain(c, Head(fns)), Tail(fns))

\* ($val: expr, $($fn: expr),*)  and  ($val: expr => $($fn: expr)=>*)
\* (the separator after $val is part of the rule, also with no step).
macro_lazy_comma(val, fns) == ChainAll(Link_new(val), fns)

macro_lazy_arrow(val, fns) == ChainAll(Link_new(val), fns)

\* The (=> ..) arrow rule gone wrong: its first step is dropped.
macro_extend_arrowDropFirst(c, fns) == ChainAll(c, Tail(fns))

\* (=> $val: expr, $($fn: expr),+)  and  (=> $val: expr => $($fn: expr)=>+)
macro_extend_comma(c, fns) == ChainAll(c, fns)

macro_extend_arrow(c, fns) == ChainAll(c, fns)

\* (>> $val: expr, $($fn: expr),*)  and  (>> $val: expr => $($fn: expr)=>*):
\* the chain that the trailing .eval() is called on.
macro_eager_comma(val, fns) == ChainAll(Link_new(val), fns)

macro_eager_arrow(val, fns) == ChainAll(Link_new(val), fns)

\* (>>> $val: expr, $($fn: expr),+)  and  (>>> $val: expr => $($fn: expr)=>+)
macro_extend_eager_comma(c, fns) == ChainAll(c, fns)

macro_extend_eager_arrow(c, fns) == ChainAll(c, fns)

Seps == {",", "=>"}

\* The step lists of at most n steps a macro call may carry on a chain of
\* item type ty: each step takes what the one before it returns (anything
\* else does not compile).
RECURSIVE FnLists(_, _)
FnLists(ty, n) ==
  IF n = 0 THEN {<<>>}
  ELSE {<<>>} \cup UNION {{<<f>> \o r : r \in FnLists(StepOut(f), n - 1)} :
                          f \in {g \in Steps : StepIn(g) = ty}}

(* ------------------------------- state --------------------------------- *)

\* The caller's let-bindings that hold chains, and the threads.
Bindings == {"x", "y"}

Threads == {"main", "spawned"}

VARIABLES
  store,     \* the caller's local variables: Loc -> characters
  slot,      \* Bindings -> the chain the binding holds, or NoChain
  phase,     \* Bindings -> "unbound", "live", "moved" (into eval), "done"
  ctx,       \* Threads -> the eval() call in progress on the thread
  result,    \* Bindings -> what eval() of the binding's chain returned
  init,      \* history: the value the binding's chain was started with
  attached,  \* history: the steps attached to it, in attachment order
  trace,     \* history: what its eval() has done so far, in order
  origin,    \* history: the constructor that started the chain
  sent       \* history: the chain eval() was called on, and the thread

vars == <<store, slot, phase, ctx, result, init, attached, trace, origin,
          sent>>

Idle == [pc |-> "idle", h |-> "-", node |-> NoChain, stack |-> <<>>,
         acc |-> NoVal]

Init ==
  /\ store = InitStore
  /\ slot = [h \in Bindings |-> NoChain]
  /\ phase = [h \in Bindings |-> "unbound"]
  /\ ctx = [t \in Threads |-> Idle]
  /\ result = [h \in Bindings |-> NoVal]
  /\ init = [h \in Bindings |-> NoVal]
  /\ attached = [h \in Bindings |-> <<>>]
  /\ trace = [h \in Bindings |-> <<>>]
  /\ origin = [h \in Bindings |-> "-"]
  /\ sent = [h \in Bindings |-> [c |-> NoChain, on |-> "-"]]

\* The main thread is between statements (eval() is a synchronous call).
MainIdle == ctx["main"].pc = "idle"

\* let x = <constructor>: binds the unbound x to a new chain of no steps.
Bind(c, v, how) ==
  /\ MainIdle
  /\ phase["x"] = "unbound"
  /\ slot' = [slot EXCEPT !["x"] = c]
  /\ phase' = [phase EXCEPT !["x"] = "live"]
  /\ init' = [init EXCEPT !["x"] = v]
  /\ origin' = [origin EXCEPT !["x"] = how]
  /\ UNCHANGED <<store, ctx, result, attached, trace, sent>>

\* The same for a constructor that borrows: the chain starts with the
\* reference the constructor made.
BindRef(c, how) == Bind(c, Root(c).v0, how)

LinkNew == \E v \in InitVals : Bind(Link_new(v), v, "Link::new")

IntoChained == \E v \in InitVals : Bind(into_chained(v), v, "into_chained")

ToChained ==
  \E l \in Loc :
    Bind(to_chained(l, store), Owned(LocType(l), store[l]), "to_chained")

ChainedRef == \E l \in Loc : BindRef(chained(l), "chained")

ChainedMut == \E l \in Loc : BindRef(chained_mut(l), "chained_mut")

ChainedDeref ==
  \E l \in Loc : /\ LocType(l) = "Box<String>"
                 /\ BindRef(chained_deref(l), "chained_deref")

ChainedDerefMut ==
  \E l \in Loc : /\ LocType(l) = "Box<String>"
                 /\ BindRef(chained_deref_mut(l), "chained_deref_mut")

ChainedAsRef == \E l \in Loc : BindRef(chained_as_ref(l), "chained_as_ref")

ChainedAsMut == \E l \in Loc : BindRef(chained_as_mut(l), "chained_as_mut")

\* chain() gone wrong: the step runs as it is attached.
AttachEager ==
  \E f \in Steps :
    /\ MainIdle
    /\ phase["x"] = "live"
    /\ Depth(slot["x"]) < MaxSteps
    /\ StepIn(f) = Item(slot["x"])
    /\ slot' = [slot EXCEPT !["x"] = chain(slot["x"], f)]
    /\ attached' = [attached EXCEPT !["x"] = Append(@, f)]
    /\ trace' = [trace EXCEPT !["x"] = Append(@, f)]
    /\ UNCHANGED <<store, phase, ctx, result, init, origin, sent>>

\* let x = x.chain(f)
Attach ==
  \E f \in Steps :
    /\ MainIdle
    /\ phase["x"] = "live"
    /\ Depth(slot["x"]) < MaxSteps
    /\ StepIn(f) = Item(slot["x"])
    /\ slot' = [slot EXCEPT !["x"] = chain(slot["x"], f)]
    /\ attached' = [attached EXCEPT !["x"] = Append(@, f)]
    /\ UNCHANGED <<store, phase, ctx, result, init, trace, origin, sent>>

\* clone() gone wrong: only the initial value is cloned, not the steps.
CloneShallow ==
  /\ MainIdle
  /\ phase["x"] = "live"
  /\ phase["y"] = "unbound"
  /\ IsClone(slot["x"])
  /\ slot' = [slot EXCEPT !["y"] = Root(slot["x"])]
  /\ phase' = [phase EXCEPT !["y"] = "live"]
  /\ init' = [init EXCEPT !["y"] = init["x"]]
  /\ attached' = [attached EXCEPT !["y"] = attached["x"]]
  /\ origin' = [origin EXCEPT !["y"] = "clone"]
  /\ UNCHANGED <<store, ctx, result, trace, sent>>

\* let y = x.clone()
Clone ==
  /\ MainIdle
  /\ phase["x"] = "live"
  /\ phase["y"] = "unbound"
  /\ IsClone(slot["x"])
  /\ slot' = [slot EXCEPT !["y"] = slot["x"]]
  /\ phase' = [phase EXCEPT !["y"] = "live"]
  /\ init' = [init EXCEPT !["y"] = init["x"]]
  /\ attached' = [attached EXCEPT !["y"] = attached["x"]]
  /\ origin' = [origin EXCEPT !["y"] = "clone"]
  /\ UNCHANGED <<store, ctx, result, trace, sent>>

\* The call c.eval() on thread t, c moved out of binding h.
Enter(t, h, c) == [pc |-> "eval", h |-> h, node |-> c, stack |-> <<>>,
                   acc |-> NoVal]

\* eval() gone wrong: it takes &self, the binding keeps its chain.
EvalKeepsChain ==
  \E h \in Bindings :
    /\ MainIdle
    /\ phase[h] = "live"
    /\ ctx' = [ctx EXCEPT !["main"] = Enter("main", h, slot[h])]
    /\ sent' = [sent EXCEPT ![h] = [c |-> slot[h], on |-> "main"]]
    /\ phase' = [phase EXCEPT ![h] = "moved"]
    /\ UNCHANGED <<store, slot, result, init, attached, trace, origin>>

\* h.eval() on the main thread: self is moved into the call.
Eval ==
  \E h \in Bindings :
    /\ MainIdle
    /\ phase[h] = "live"
    /\ ctx' = [ctx EXCEPT !["main"] = Enter("main", h, slot[h])]
    /\ sent' = [sent EXCEPT ![h] = [c |-> slot[h], on |-> "main"]]
    /\ slot' = [slot EXCEPT ![h] = NoChain]
    /\ phase' = [phase EXCEPT ![h] = "moved"]
    /\ UNCHANGED <<store, result, init, attached, trace, origin>>

\* std::thread::spawn(|| x.eval()): the chain is moved into the new thread.
Spawn ==
  /\ MainIdle
  /\ phase["x"] = "live"
  /\ ctx["spawned"].pc = "idle"
  /\ IsStatic(slot["x"])
  /\ ctx' = [ctx EXCEPT !["spawned"] = Enter("spawned", "x", slot["x"])]
  /\ sent' = [sent EXCEPT !["x"] = [c |-> slot["x"], on |-> "spawned"]]
  /\ slot' = [slot EXCEPT !["x"] = NoChain]
  /\ phase' = [phase EXCEPT !["x"] = "moved"]
  /\ UNCHANGED <<store, result, init, attached, trace, origin>>

\* Chain::eval gone wrong: self.fun is dropped, not kept for the call.
ChainEvalSkip(t) ==
  /\ ctx[t].pc = "eval"
  /\ ctx[t].node.kind = "Chain"
  /\ ctx' = [ctx EXCEPT ![t].node = ctx[t].node.val]
  /\ UNCHANGED <<store, slot, phase, result, init, attached, trace, origin,
                 sent>>

\* Chain::eval entered on thread t: self.val.eval() is called next.
ChainEval(t) ==
  /\ ctx[t].pc = "eval"
  /\ ctx[t].node.kind = "Chain"
  /\ ctx' = [ctx EXCEPT ![t].stack = PushFrame(@, ctx[t].node.fun),
                        ![t].node = ctx[t].node.val]
  /\ UNCHANGED <<store, slot, phase, result, init, attached, trace, origin, sent>>

\* Link::eval on thread t: the initial value is handed out.
LinkEval(t) ==
  /\ ctx[t].pc = "eval"
  /\ ctx[t].node.kind = "Link"
  /\ ctx' = [ctx EXCEPT ![t].pc = "ret",
                        ![t].acc = Link_eval(ctx[t].node),
                        ![t].node = NoChain]
  /\ trace' = [trace EXCEPT ![ctx[t].h] = Append(@, "release")]
  /\ UNCHANGED <<store, slot, phase, result, init, attached, origin, sent>>

\* The call gone wrong: the closure works on a copy of what the reference
\* points to, the caller's variable stays as it was.
CallStepOnCopy(t) ==
  /\ ctx[t].pc = "ret"
  /\ ctx[t].stack # <<>>
  /\ ctx' = [ctx EXCEPT
               ![t].acc = CallFn(Head(ctx[t].stack), ctx[t].acc, store).out,
               ![t].stack = Tail(@)]
  /\ trace' = [trace EXCEPT ![ctx[t].h] = Append(@, Head(ctx[t].stack))]
  /\ UNCHANGED <<store, slot, phase, result, init, attached, origin, sent>>

\* The call gone wrong: the value in flight is kept in one place for all
\* threads (the main thread's), not in the call's own frame.
CallStepSharedAcc(t) ==
  /\ ctx[t].pc = "ret"
  /\ ctx[t].stack # <<>>
  /\ LET r == CallFn(Head(ctx[t].stack), ctx["main"].acc, store)
     IN  /\ ctx' = [ctx EXCEPT ![t].acc = r.out,
                               ![t].stack = Tail(@)]
         /\ store' = r.store
  /\ trace' = [trace EXCEPT ![ctx[t].h] = Append(@, Head(ctx[t].stack))]
  /\ UNCHANGED <<slot, phase, result, init, attached, origin, sent>>

\* self.val.eval() has returned into a Chain::eval on thread t: self.fun is
\* called on what it returned.
CallStep(t) ==
  /\ ctx[t].pc = "ret"
  /\ ctx[t].stack # <<>>
  /\ LET r == CallFn(Head(ctx[t].stack), ctx[t].acc, store)
     IN  /\ ctx' = [ctx EXCEPT ![t].acc = r.out,
                               ![t].stack = Tail(@)]
         /\ store' = r.store
  /\ trace' = [trace EXCEPT ![ctx[t].h] = Append(@, Head(ctx[t].stack))]
  /\ UNCHANGED <<slot, phase, result, init, attached, origin, sent>>

\* The outermost eval() returns on thread t.
Return(t) ==
  /\ ctx[t].pc = "ret"
  /\ ctx[t].stack = <<>>
  /\ result' = [result EXCEPT ![ctx[t].h] = ctx[t].acc]
  /\ phase' = [phase EXCEPT ![ctx[t].h] = "done"]
  /\ ctx' = [ctx EXCEPT ![t] = Idle]
  /\ UNCHANGED <<store, slot, init, attached, trace, origin, sent>>

\* let x = chained!(v, f1, ..) or chained!(v => f1 => ..)
MacroLazy ==
  /\ MainIdle
  /\ phase["x"] = "unbound"
  /\ \E sep \in Seps, v \in InitVals :
       \E fns \in FnLists(v.ty, MaxSteps) :
         /\ slot' = [slot EXCEPT !["x"] = IF sep = ","
                                          THEN macro_lazy_comma(v, fns)
                                          ELSE macro_lazy_arrow(v, fns)]
         /\ init' = [init EXCEPT !["x"] = v]
         /\ attached' = [attached EXCEPT !["x"] = fns]
  /\ phase' = [phase EXCEPT !["x"] = "live"]
  /\ origin' = [origin EXCEPT !["x"] = "chained!"]
  /\ UNCHANGED <<store, ctx, result, trace, sent>>

\* chained!(>> v, f1, ..) or chained!(>> v => f1 => ..)
MacroEager ==
  /\ MainIdle
  /\ phase["x"] = "unbound"
  /\ \E sep \in Seps, v \in InitVals :
       \E fns \in FnLists(v.ty, MaxSteps) :
         LET c == IF sep = "," THEN macro_eager_comma(v, fns)
                               ELSE macro_eager_arrow(v, fns)
         IN  /\ ctx' = [ctx EXCEPT !["main"] = Enter("main", "x", c)]
             /\ sent' = [sent EXCEPT !["x"] = [c |-> c, on |-> "main"]]
             /\ init' = [init EXCEPT !["x"] = v]
             /\ attached' = [attached EXCEPT !["x"] = fns]
  /\ phase' = [phase EXCEPT !["x"] = "moved"]
  /\ origin' = [origin EXCEPT !["x"] = "chained!"]
  /\ UNCHANGED <<store, slot, result, trace>>

\* let x = chained!(=> x, f1, ..) or chained!(=> x => f1 => ..)
MacroExtend ==
  /\ MainIdle
  /\ phase["x"] = "live"
  /\ \E sep \in Seps :
       \E fns \in FnLists(Item(slot["x"]), MaxSteps - Depth(slot["x"])) :
         /\ fns # <<>>
         /\ slot' = [slot EXCEPT !["x"] =
                       IF sep = "," THEN macro_extend_comma(slot["x"], fns)
                                    ELSE macro_extend_arrow(slot["x"], fns)]
         /\ attached' = [attached EXCEPT !["x"] = @ \o fns]
  /\ UNCHANGED <<store, phase, ctx, result, init, trace, origin, sent>>

\* chained!(>>> x, f1, ..) or chained!(>>> x => f1 => ..)
MacroExtendEager ==
  /\ MainIdle
  /\ phase["x"] = "live"
  /\ \E sep \in Seps :
       \E fns \in FnLists(Item(slot["x"]), MaxSteps - Depth(slot["x"])) :
         LET c == IF sep = ","
                  THEN macro_extend_eager_comma(slot["x"], fns)
                  ELSE macro_extend_eager_arrow(slot["x"], fns)
         IN  /\ fns # <<>>
             /\ ctx' = [ctx EXCEPT !["main"] = Enter("main", "x", c)]
             /\ sent' = [sent EXCEPT !["x"] = [c |-> c, on |-> "main"]]
             /\ attached' = [attached EXCEPT !["x"] = @ \o fns]
  /\ slot' = [slot EXCEPT !["x"] = NoChain]
  /\ phase' = [phase EXCEPT !["x"] = "moved"]
  /\ UNCHANGED <<store, result, init, trace, origin>>

Next ==
  \/ LinkNew
  \/ IntoChained
  \/ ToChained
  \/ ChainedRef
  \/ ChainedMut
  \/ ChainedDeref
  \/ ChainedDerefMut
  \/ ChainedAsRef
  \/ ChainedAsMut
  \/ Attach
  \/ Clone
  \/ Eval
  \/ Spawn
  \/ MacroLazy
  \/ MacroEager
  \/ MacroExtend
  \/ MacroExtendEager
  \/ \E t \in Threads : ChainEval(t)
  \/ \E t \in Threads : LinkEval(t)
  \/ \E t \in Threads : CallStep(t)
  \/ \E t \in Threads : Return(t)

Spec == Init /\ [][Next]_vars

(* ------------------------- what the claims use ------------------------- *)

\* s_n(...s_2(s_1(v))...) with the caller's variables st: the steps applied
\* to v one after the other, first to last.
RECURSIVE ApplyInOrder(_, _, _)
ApplyInOrder(fns, v, st) ==
  IF fns = <<>> THEN [out |-> v, store |-> st]
  ELSE LET r == CallFn(Head(fns), v, st)
       IN  ApplyInOrder(Tail(fns), r.out, r.store)

\* What the chain of binding h is expected to return and to leave behind.
Expected(h) == ApplyInOrder(attached[h], init[h], InitStore)

\* The explicit call c.chain(f1).chain(f2)...chain(fn).
RECURSIVE Explicit(_, _)
Explicit(c, fns) ==
  IF fns = <<>> THEN c
  ELSE chain(Explicit(c, SubSeq(fns, 1, Len(fns) - 1)), fns[Len(fns)])

IsPrefix(p, q) == Len(p) <= Len(q) /\ SubSeq(q, 1, Len(p)) = p

Consumed(h) == phase[h] \in {"moved", "done"}

\* C1 (order property): whenever eval() of a chain has returned, it has
\* returned sn(...s2(s1(v))...) for the initial value v and the steps
\* s1..sn in the order they were attached, whether attached in one
\* expression or by extending the chain later.
OrderProperty ==
  \A h \in Bindings : phase[h] = "done" => result[h] = Expected(h).out

\* 1, double, zero, square evaluates to 0.
OrderWitness ==
  /\ phase["x"] = "done"
  /\ init["x"] = I32(1)
  /\ attached["x"] = <<"double", "zero", "square">>
  /\ result["x"] = I32(0)

\* C2 (laziness): as long as eval() has not been called on a chain, none of
\* its steps has run and nothing has been evaluated, however many steps
\* were attached.
Laziness ==
  \A h \in Bindings :
    phase[h] \in {"unbound", "live"} =>
      /\ trace[h] = <<>>
      /\ result[h] = NoVal
      /\ \A t \in Threads : ctx[t].h # h

LazinessWitness ==
  /\ phase["x"] = "live"
  /\ Len(attached["x"]) = MaxSteps
  /\ Depth(slot["x"]) = MaxSteps
  /\ trace["x"] = <<>>

\* C3 (single use): once eval() has been called on a chain the binding
\* holds no chain any more and never does again: no second eval() and no
\* further chain() happens on it, and when eval() has returned no node of
\* the chain is left anywhere.
SingleUse ==
  [][\A h \in Bindings :
       Consumed(h) =>
         /\ slot[h] = NoChain /\ slot'[h] = NoChain
         /\ phase'[h] \in {"moved", "done"}
         /\ sent'[h] = sent[h]
         /\ attached'[h] = attached[h]
         /\ (phase'[h] = "done" => \A t \in Threads : ctx'[t].h # h)]_vars

SingleUseWitness ==
  /\ phase["x"] = "done"
  /\ Depth(sent["x"].c) >= 2
  /\ slot["x"] = NoChain

\* C4 (identity): a chain with no attached step evaluates to exactly the
\* value it was started with, and no step runs.
IdentityProperty ==
  \A h \in Bindings :
    (phase[h] = "done" /\ attached[h] = <<>>) =>
      /\ result[h] = init[h]
      /\ trace[h] = <<"release">>
      /\ store = InitStore

IdentityWitness ==
  /\ phase["x"] = "done"
  /\ origin["x"] = "Link::new"
  /\ attached["x"] = <<>>
  /\ result["x"] = StaticStr(<<" ", "a", "\n">>)

\* C5 (mutable-borrow visibility): for a chain started with chained_mut()
\* on a variable, the variable is unchanged as long as eval() has not been
\* called, and once eval() has returned it shows every mutation the steps
\* made through the reference.
MutBorrowVisible ==
  \A h \in Bindings :
    origin[h] = "chained_mut" =>
      /\ phase[h] = "live" => store = InitStore
      /\ phase[h] = "done" => store = Expected(h).store

\* st = "test", the step pushes '.', afterwards st = "test.".
MutBorrowWitness ==
  /\ origin["x"] = "chained_mut"
  /\ phase["x"] = "done"
  /\ attached["x"] = <<"push_dot">>
  /\ store["st"] = <<"t", "e", "s", "t", ".">>

\* C6 (as-mut constructor): a chain started with chained_as_mut() holds an
\* exclusively-mutable reference in its terminal node, as one started with
\* chained_mut() does.
AsMutHoldsMutRef ==
  \A h \in Bindings :
    (origin[h] = "chained_as_mut" /\ phase[h] = "live") =>
      IsMutRefType(Root(slot[h]).v0.ty)

\* A step of the eval() of binding o: the call itself or a step inside it.
EvalStepOf(o) ==
  \/ phase[o] = "live" /\ phase'[o] = "moved"
  \/ \E t \in Threads : ctx[t].h = o /\ ctx'[t] # ctx[t]

\* C7 (duplicability): clone() of a chain that is not yet evaluated gives a
\* second chain equal to the first and leaves the first as it was; a step
\* of the evaluation of one of the two does not touch the other; and when
\* both have been evaluated with the same steps, in whatever order, the two
\* outputs are equal.
Duplicable ==
  [][/\ (phase["y"] = "unbound" /\ phase'["y"] = "live") =>
          /\ slot'["y"] = slot["x"]
          /\ slot'["x"] = slot["x"]
          /\ phase'["x"] = "live"
     /\ \A h, o \in Bindings :
          (h # o /\ EvalStepOf(o)) =>
            /\ slot'[h] = slot[h]
            /\ phase'[h] = phase[h]
            /\ result'[h] = result[h]
            /\ trace'[h] = trace[h]
     /\ (/\ phase'["x"] = "done"
         /\ phase'["y"] = "done"
         /\ attached'["x"] = attached'["y"]) =>
          result'["x"] = result'["y"]]_vars

DuplicableWitness ==
  /\ origin["y"] = "clone"
  /\ phase["x"] = "done"
  /\ phase["y"] = "done"
  /\ attached["x"] = attached["y"]
  /\ Len(attached["x"]) >= 2
  /\ result["x"] = result["y"]
  /\ result["x"] # NoVal

\* The steps a macro call added to the steps the binding had before.
Added(h) == SubSeq(attached'[h], Len(attached[h]) + 1, Len(attached'[h]))

\* C8 (macro lowering): each form of chained! does what the explicit calls
\* do: the forms with an initial value build
\* Link::new(v).chain(s1)...chain(sn), the forms with an existing chain c
\* build c.chain(s1)...chain(sn); the plain and the => forms leave the
\* chain unevaluated, the >> and >>> forms call eval() on it; comma and
\* fat arrow give the same.
MacroLowering ==
  [][/\ MacroLazy =>
          /\ slot'["x"] = Explicit(Link_new(init'["x"]), attached'["x"])
          /\ ctx' = ctx /\ trace' = trace
     /\ MacroEager =>
          /\ ctx'["main"] =
               Enter("main", "x",
                     Explicit(Link_new(init'["x"]), attached'["x"]))
          /\ slot'["x"] = NoChain
     /\ MacroExtend =>
          /\ slot'["x"] = Explicit(slot["x"], Added("x"))
          /\ ctx' = ctx /\ trace' = trace
     /\ MacroExtendEager =>
          /\ ctx'["main"] =
               Enter("main", "x", Explicit(slot["x"], Added("x")))
          /\ slot'["x"] = NoChain]_vars

\* chained!(1, double) extended and evaluated by chained!(>>> x, square)
\* gives 4.
MacroWitness ==
  /\ origin["x"] = "chained!"
  /\ phase["x"] = "done"
  /\ init["x"] = I32(1)
  /\ attached["x"] = <<"double", "square">>
  /\ result["x"] = I32(4)

\* C9 (cross-thread transfer): a chain moved to the spawned thread and
\* evaluated there returns what eval() of that chain returns when run
\* without interruption on the thread that built it, whatever the main
\* thread does in between.
CrossThread ==
  \A h \in Bindings :
    (phase[h] = "done" /\ sent[h].on = "spawned") =>
      result[h] = Chain_eval(sent[h].c, InitStore).out

\* "\n" trimmed and measured on the spawned thread gives 0, the main thread
\* having evaluated a clone in the meantime.
CrossThreadWitness ==
  /\ phase["x"] = "done"
  /\ sent["x"].on = "spawned"
  /\ init["x"] = StaticStr(<<"\n">>)
  /\ attached["x"] = <<"trim", "len">>
  /\ result["x"] = Usize(0)
  /\ phase["y"] = "done"

\* C10 (exactly once, in order): at every moment of an eval() what has run
\* so far is the release of the initial value followed by the first steps
\* of the chain, each once and in attachment order; when eval() has
\* returned every step has run, n step calls in all.
ExactlyOnceInOrder ==
  \A h \in Bindings :
    /\ IsPrefix(trace[h], <<"release">> \o attached[h])
    /\ phase[h] = "done" =>
         /\ trace[h] = <<"release">> \o attached[h]
         /\ Len(trace[h]) = Depth(sent[h].c) + 1

ExactlyOnceWitness ==
  /\ phase["x"] = "done"
  /\ Len(attached["x"]) = MaxSteps
  /\ Len(trace["x"]) = MaxSteps + 1
  /\ attached["x"][1] # attached["x"][2]

====
